---- MODULE Spec2Model ----
(***************************************************************************)
(* The operation handle of package operation (operation.go): the snapshot  *)
(* accessors, Poll, and the WaitInterval polling loop, as a state machine. *)
(* Strings are tuples of one-character strings; durations are whole        *)
(* seconds.                                                                *)
(***************************************************************************)
EXTENDS Integers, Sequences, FiniteSets, TLC

VARIABLES
    proto,          \* o.proto: the handle's current snapshot
    pc,             \* "idle" (no call is running) | "head" (for !o.Done())
                    \* | "query" (the Get of the loop's o.Poll is in flight)
                    \* | "poll" (the loop's o.Poll runs and calls no Get)
                    \* | "waiting" (the select of the loop)
    pollInterval,   \* waitInterval's parameter, seconds
    notFoundCount,  \* waitInterval's local
    headers,        \* waitInterval's local, the values under the poll-interval key
    ctxErr,         \* ctx.Err() of the context given to the call: "nil" until done
    timer,          \* the timer of the latest o.newTimer call
    ret,            \* what the latest call returned, op = "none" while it runs
    nQueries,       \* status queries issued by the call in progress
    lastQuery,      \* family and operation id of the latest Poll's Get request
    lastResp,       \* what that Get returned
    before,         \* o.proto when the latest Poll was entered
    nfSeen,         \* NotFound query results seen by the Wait in progress
    interval,       \* waitInterval's local of the iteration in progress, once set
    newTimerCalled  \* whether the iteration in progress called o.newTimer

vars == <<proto, pc, pollInterval, notFoundCount, headers, ctxErr, timer, ret,
          nQueries, lastQuery, lastResp, before, nfSeen, interval, newTimerCalled>>

-----------------------------------------------------------------------------
(* Bounds *)

\* status queries one call may issue
MaxQueries == 5

-----------------------------------------------------------------------------
(* Constants of the package *)

CLICKHOUSE_OPERATION_PREFIX == <<"c", "h", "o">>
KAFKA_OPERATION_PREFIX == <<"k", "f", "o">>
TRANSFER_OPERATION_PREFIX == <<"d", "t", "j">>
TRANSFER_ENDPOINTS_OPERATION_PREFIX == <<"d", "t", "e">>

maxNotFoundRetry == 3

\* DefaultPollInterval = time.Second
DefaultPollInterval == 1

-----------------------------------------------------------------------------
(* Strings *)

\* strings.HasPrefix
HasPrefix(s, prefix) ==
    /\ Len(s) >= Len(prefix)
    /\ SubSeq(s, 1, Len(prefix)) = prefix

Digits == {"0", "1", "2", "3", "4", "5", "6", "7", "8", "9"}

HexChars == Digits \cup {"a", "b", "c", "d", "e", "f", "A", "B", "C", "D", "E", "F"}

\* uuid.Parse(s) returns no error. The 36-character form has dashes at (1-based)
\* 9, 14, 19, 24 and hex digits elsewhere, the 32-character form is all hex digits.
\* The urn:uuid: (45) and braced (38) forms are no identifier of SampleIds.
UuidParses(s) ==
    CASE Len(s) = 36 ->
            \A i \in 1..36 :
                IF i \in {9, 14, 19, 24} THEN s[i] = "-" ELSE s[i] \in HexChars
      [] Len(s) = 32 -> \A i \in 1..32 : s[i] \in HexChars
      [] OTHER -> FALSE

DigitVal(c) ==
    CASE c = "0" -> 0 [] c = "1" -> 1 [] c = "2" -> 2 [] c = "3" -> 3 [] c = "4" -> 4
      [] c = "5" -> 5 [] c = "6" -> 6 [] c = "7" -> 7 [] c = "8" -> 8 [] c = "9" -> 9

-----------------------------------------------------------------------------
(* int and time.Duration: 64-bit integers. A natural number is the tuple of  *)
(* its decimal digits, most significant first and without leading zeros, so   *)
(* 0 is <<>>; an integer is a sign and a natural number.                      *)

Front(ds) == IF ds = <<>> THEN <<>> ELSE SubSeq(ds, 1, Len(ds) - 1)

RECURSIVE Norm(_)
Norm(ds) == IF ds # <<>> /\ ds[1] = 0 THEN Norm(Tail(ds)) ELSE ds

RECURSIVE LexLess(_, _)
LexLess(a, b) ==
    /\ a # <<>>
    /\ \/ a[1] < b[1]
       \/ a[1] = b[1] /\ LexLess(Tail(a), Tail(b))

\* a < b
Less(a, b) == Len(a) < Len(b) \/ (Len(a) = Len(b) /\ LexLess(a, b))

RECURSIVE SubDigits(_, _, _)
SubDigits(a, b, borrow) ==
    IF a = <<>> THEN <<>>
    ELSE LET t == a[Len(a)] - (IF b = <<>> THEN 0 ELSE b[Len(b)]) - borrow
         IN  SubDigits(Front(a), Front(b), IF t < 0 THEN 1 ELSE 0)
                \o << IF t < 0 THEN t + 10 ELSE t >>

\* a - b, for b <= a
Sub(a, b) == Norm(SubDigits(a, b, 0))

RECURSIVE Reduce(_, _)
Reduce(a, m) == IF Less(a, m) THEN a ELSE Reduce(Sub(a, m), m)

\* a mod m, by long division
RECURSIVE Mod(_, _)
Mod(a, m) ==
    IF a = <<>> THEN <<>>
    ELSE Reduce(Norm(Mod(Front(a), m) \o <<a[Len(a)]>>), m)

\* 2^63 and 2^64
TwoTo63 == <<9, 2, 2, 3, 3, 7, 2, 0, 3, 6, 8, 5, 4, 7, 7, 5, 8, 0, 8>>
TwoTo64 == <<1, 8, 4, 4, 6, 7, 4, 4, 0, 7, 3, 7, 0, 9, 5, 5, 1, 6, 1, 6>>

\* the int64 that has the low 64 bits of the integer of sign neg and size mag
Wrap64(neg, mag) ==
    LET u == Mod(mag, TwoTo64)
        v == IF neg /\ u # <<>> THEN Sub(TwoTo64, u) ELSE u
    IN  IF Less(v, TwoTo63) THEN [neg |-> FALSE, mag |-> v]
        ELSE [neg |-> TRUE, mag |-> Sub(TwoTo64, v)]

\* time.Second, nanoseconds
Second == <<1, 0, 0, 0, 0, 0, 0, 0, 0, 0>>

\* time.Duration(i) * time.Second: the product of i and 10^9, in 64 bits
TimesSecond(i) ==
    Wrap64(i.neg, IF i.mag = <<>> THEN <<>> ELSE i.mag \o Tail(Second))

RECURSIVE NatDigits(_)
NatDigits(n) == IF n = 0 THEN <<>> ELSE NatDigits(n \div 10) \o <<n % 10>>

\* the time.Duration of n seconds, for a small n >= 0
Seconds(n) == TimesSecond([neg |-> FALSE, mag |-> NatDigits(n)])

\* d > 0
Positive(d) == ~d.neg /\ d.mag # <<>>

RECURSIVE DecimalVal(_)
DecimalVal(ds) ==
    IF ds = <<>> THEN <<>>
    ELSE Norm(DecimalVal(Front(ds)) \o <<DigitVal(ds[Len(ds)])>>)

\* strconv.Atoi where int has 64 bits: an optional sign, then one or more
\* decimal digits, of a value from -2^63 to 2^63 - 1
Atoi(s) ==
    LET signed == s # <<>> /\ s[1] \in {"+", "-"}
        ds     == IF signed THEN Tail(s) ELSE s
        neg    == signed /\ s[1] = "-"
    IN  IF ds = <<>> \/ \E i \in 1..Len(ds) : ds[i] \notin Digits
        THEN [ok |-> FALSE, neg |-> FALSE, mag |-> <<>>]
        ELSE IF Less(DecimalVal(ds), TwoTo63) \/ (neg /\ DecimalVal(ds) = TwoTo63)
        THEN [ok |-> TRUE, neg |-> neg /\ DecimalVal(ds) # <<>>, mag |-> DecimalVal(ds)]
        ELSE [ok |-> FALSE, neg |-> FALSE, mag |-> <<>>]

-----------------------------------------------------------------------------
(* Identifiers, snapshots, errors *)

IdUuid36 == <<"1", "2", "3", "e", "4", "5", "6", "7", "-", "e", "8", "9", "b", "-", "1", "2", "d", "3", "-", "a", "4", "5", "6", "-", "4", "2", "6", "6", "1", "4", "1", "7", "4", "0", "0", "0">>
IdUuid32 == <<"1", "2", "3", "E", "4", "5", "6", "7", "e", "8", "9", "b", "1", "2", "d", "3", "a", "4", "5", "6", "4", "2", "6", "6", "1", "4", "1", "7", "4", "0", "0", "0">>
IdUuid36Bad == <<"1", "2", "3", "e", "4", "5", "6", "7", "-", "e", "8", "9", "b", "-", "1", "2", "d", "3", "-", "a", "4", "5", "6", "-", "4", "2", "6", "6", "1", "4", "1", "7", "4", "0", "0", "g">>

\* the operation identifiers handles are built with
SampleIds ==
    { <<"c", "h", "o", "1">>, <<"k", "f", "o", "1">>, <<"d", "t", "j", "1">>,
      <<"d", "t", "e", "1">>, IdUuid36, IdUuid32,
      IdUuid36Bad, <<"x", "c", "h", "o">>, <<"C", "H", "O", "1">>, <<"c", "h">> }

Statuses == {"STATUS_INVALID", "STATUS_PENDING", "STATUS_DONE"}

\* google.rpc.Status codes an operation's error field carries ("nil": no error)
OperationErrorCodes == {"NotFound", "Internal"}

MetadataValues == {"m0", "m1"}

\* the snapshots of operation id: no error while pending
Snapshots(id) ==
    { [id |-> id, status |-> s, error |-> e, metadata |-> m] :
        s \in Statuses, e \in OperationErrorCodes \cup {"nil"}, m \in MetadataValues }
    \ { p \in [id : {id}, status : {"STATUS_PENDING"},
               error : OperationErrorCodes, metadata : MetadataValues] : TRUE }

\* a nil *doublecloud.Operation
NilState == [nil |-> TRUE]

\* errors: a wrapped cause. grpc: the cause is a gRPC status error.
NoError == [grpc |-> FALSE, code |-> "nil", msgs |-> <<>>]

StatusErr(code) == [grpc |-> TRUE, code |-> code, msgs |-> <<>>]

ContextErr(e) == [grpc |-> FALSE, code |-> e, msgs |-> <<>>]

\* codes a failed Get carries
QueryErrorCodes == {"NotFound", "Unavailable"}

\* what ctx.Err() is once ctx is done
ContextErrors == {"Canceled", "DeadlineExceeded"}

\* sdkerrors.WithMessagef: nil stays nil, otherwise the message is put in front of
\* an error that keeps its cause and its gRPC status
WithMessagef(err, msg) ==
    IF err = NoError THEN NoError
    ELSE [err EXCEPT !.msgs = <<msg>> \o @]

MsgUnknownType == "unknown type"
MsgPollFail == "poll fail"
MsgFailed == "failed"
MsgContextDone == "wait context done"

-----------------------------------------------------------------------------
(* Accessors *)

Id(p) == p.id

Metadata(p) == p.metadata

Status(p) == p.status

\* Operation.Error: nil without a recorded error, else the status error built from it
Error(p) == IF p.error = "nil" THEN NoError ELSE StatusErr(p.error)

Done(p) == p.status = "STATUS_DONE" \/ p.status = "STATUS_INVALID"

Ok(p) == Done(p) /\ p.error = "nil"

Failed(p) == Done(p) /\ p.error # "nil"

-----------------------------------------------------------------------------
(* Poll *)

Families == {"clickhouse", "kafka", "transfer", "network"}

\* Family without the branch for TRANSFER_ENDPOINTS_OPERATION_PREFIX
FamilyNoEndpoints(id) ==
    IF HasPrefix(id, CLICKHOUSE_OPERATION_PREFIX) THEN "clickhouse"
    ELSE IF HasPrefix(id, KAFKA_OPERATION_PREFIX) THEN "kafka"
    ELSE IF HasPrefix(id, TRANSFER_OPERATION_PREFIX) THEN "transfer"
    ELSE IF UuidParses(id) THEN "network"
    ELSE "none"

\* the OperationServiceClient whose Get Poll calls for identifier id, "none" when
\* no branch of the if/else-if chain is taken
Family(id) ==
    IF HasPrefix(id, CLICKHOUSE_OPERATION_PREFIX) THEN "clickhouse"
    ELSE IF HasPrefix(id, KAFKA_OPERATION_PREFIX) THEN "kafka"
    ELSE IF HasPrefix(id, TRANSFER_OPERATION_PREFIX)
            \/ HasPrefix(id, TRANSFER_ENDPOINTS_OPERATION_PREFIX) THEN "transfer"
    ELSE IF UuidParses(id) THEN "network"
    ELSE "none"

\* what a generated Get stub returns: (out, nil) or (nil, err). The client
\* implements the OperationServiceClient of every family, so no type assertion
\* of Poll panics.
Responses(id) ==
    { [state |-> s, err |-> NoError] : s \in Snapshots(id) }
    \cup { [state |-> NilState, err |-> StatusErr(c)] : c \in QueryErrorCodes }

\* no Get was called
NoResponse == [state |-> NilState, err |-> NoError]

\* Poll's variable state after the if/else-if chain
PollState(fam, resp) == IF fam = "none" THEN NilState ELSE resp.state

\* Poll's variable err (declared at line 109) after the if/else-if chain: the
\* network branch assigns Get's error to the err its own if statement declares
PollErr(fam, resp) ==
    IF fam \in {"clickhouse", "kafka", "transfer"} THEN resp.err ELSE NoError

\* PollFinish copying the status and the error into the old snapshot
PollFinishPartial(p, state, err) ==
    IF state = NilState THEN [proto |-> p, err |-> WithMessagef(err, MsgUnknownType)]
    ELSE IF err # NoError THEN [proto |-> p, err |-> err]
    ELSE [proto |-> [p EXCEPT !.status = state.status, !.error = state.error],
          err |-> NoError]

\* Poll from line 120 on: the snapshot it leaves and the error it returns
PollFinish(p, state, err) ==
    IF state = NilState THEN [proto |-> p, err |-> WithMessagef(err, MsgUnknownType)]
    ELSE IF err # NoError THEN [proto |-> p, err |-> err]
    ELSE [proto |-> state, err |-> NoError]

\* Poll on snapshot p when the Get it calls, if any, returns resp
PollResult(p, resp) ==
    PollFinish(p, PollState(Family(Id(p)), resp), PollErr(Family(Id(p)), resp))

-----------------------------------------------------------------------------
(* waitInterval *)

\* 9223372037: the least number of seconds whose nanoseconds exceed 2^63 - 1
HeaderOverflow == <<"9", "2", "2", "3", "3", "7", "2", "0", "3", "7">>

\* the values a response carries under x-operation-poll-interval
HeaderSamples ==
    { <<>>, << <<"2">> >>, << <<"0">> >>, << <<"-", "1">> >>, << <<"x">> >>,
      << HeaderOverflow >> }

\* the first values of HeaderSamples
HeaderValues == { vals[1] : vals \in HeaderSamples \ {<<>>} }

\* lines 168-170 for each value of HeaderValues: whether Atoi returns no error,
\* and the interval then
HintInterval ==
    [v \in HeaderValues |->
        [ok |-> Atoi(v).ok, d |-> TimesSecond([neg |-> Atoi(v).neg, mag |-> Atoi(v).mag])]]

\* base intervals WaitInterval is called with, seconds
BaseIntervals == {0, 1}

\* the time.Duration of each base interval
BaseDuration == [b \in BaseIntervals \cup {DefaultPollInterval} |-> Seconds(b)]

shoudRetry(err) == err.grpc /\ err.code = "NotFound"

\* Interval taking the header's value only when it is above zero
IntervalPositiveOnly(base, vals) ==
    IF Len(vals) > 0 /\ HintInterval[vals[1]].ok /\ Positive(HintInterval[vals[1]].d)
    THEN HintInterval[vals[1]].d
    ELSE BaseDuration[base]

\* lines 166-172: the interval of a cycle
Interval(base, vals) ==
    IF Len(vals) > 0 /\ HintInterval[vals[1]].ok THEN HintInterval[vals[1]].d
    ELSE BaseDuration[base]

\* no Poll was made yet
NoQuery == [family |-> "none", id |-> <<>>]

NoTimer == [state |-> "none", d |-> Seconds(0)]

NoReturn == [op |-> "none", err |-> NoError]

\* the iteration has not reached line 166
NoInterval == [set |-> FALSE, d |-> Seconds(0)]

\* WaitResult returning o.Error() as it is
WaitResultUnwrapped(p) == [op |-> "Wait", err |-> Error(p)]

\* line 184: what waitInterval returns once the loop is left
WaitResult(p) == [op |-> "Wait", err |-> WithMessagef(Error(p), MsgFailed)]

\* AfterPoll leaving the loop after every Poll that returned no error
AfterPollBreakOnSuccess(p, err, vals, nf, base, tm) ==
    LET retry == err # NoError /\ nf < maxNotFoundRetry /\ shoudRetry(err)
        nf2   == IF retry THEN nf + 1 ELSE nf
    IN  IF err # NoError /\ ~retry
        THEN [pc |-> "idle", ret |-> [op |-> "Wait", err |-> WithMessagef(err, MsgPollFail)],
              nf |-> nf, timer |-> tm, interval |-> NoInterval, made |-> FALSE]
        ELSE IF err = NoError
        THEN [pc |-> "idle", ret |-> WaitResult(p), nf |-> nf2, timer |-> tm,
              interval |-> NoInterval, made |-> FALSE]
        ELSE IF ~Positive(Interval(base, vals))
        THEN [pc |-> "head", ret |-> NoReturn, nf |-> nf2, timer |-> tm,
              interval |-> [set |-> TRUE, d |-> Interval(base, vals)], made |-> FALSE]
        ELSE [pc |-> "waiting", ret |-> NoReturn, nf |-> nf2,
              timer |-> [state |-> "pending", d |-> Interval(base, vals)],
              interval |-> [set |-> TRUE, d |-> Interval(base, vals)], made |-> TRUE]

\* AfterPoll without the check of o.Done() at line 163
AfterPollNoBreak(p, err, vals, nf, base, tm) ==
    LET retry == err # NoError /\ nf < maxNotFoundRetry /\ shoudRetry(err)
        nf2   == IF retry THEN nf + 1 ELSE nf
    IN  IF err # NoError /\ ~retry
        THEN [pc |-> "idle", ret |-> [op |-> "Wait", err |-> WithMessagef(err, MsgPollFail)],
              nf |-> nf, timer |-> tm, interval |-> NoInterval, made |-> FALSE]
        ELSE IF ~Positive(Interval(base, vals))
        THEN [pc |-> "head", ret |-> NoReturn, nf |-> nf2, timer |-> tm,
              interval |-> [set |-> TRUE, d |-> Interval(base, vals)], made |-> FALSE]
        ELSE [pc |-> "waiting", ret |-> NoReturn, nf |-> nf2,
              timer |-> [state |-> "pending", d |-> Interval(base, vals)],
              interval |-> [set |-> TRUE, d |-> Interval(base, vals)], made |-> TRUE]

\* AfterPoll going back to the loop's head right after notFoundCount++
AfterPollRetryContinues(p, err, vals, nf, base, tm) ==
    LET retry == err # NoError /\ nf < maxNotFoundRetry /\ shoudRetry(err)
        nf2   == IF retry THEN nf + 1 ELSE nf
    IN  IF err # NoError /\ ~retry
        THEN [pc |-> "idle", ret |-> [op |-> "Wait", err |-> WithMessagef(err, MsgPollFail)],
              nf |-> nf, timer |-> tm, interval |-> NoInterval, made |-> FALSE]
        ELSE IF retry
        THEN [pc |-> "head", ret |-> NoReturn, nf |-> nf2, timer |-> tm,
              interval |-> NoInterval, made |-> FALSE]
        ELSE IF Done(p)
        THEN [pc |-> "idle", ret |-> WaitResult(p), nf |-> nf2, timer |-> tm,
              interval |-> NoInterval, made |-> FALSE]
        ELSE IF ~Positive(Interval(base, vals))
        THEN [pc |-> "head", ret |-> NoReturn, nf |-> nf2, timer |-> tm,
              interval |-> [set |-> TRUE, d |-> Interval(base, vals)], made |-> FALSE]
        ELSE [pc |-> "waiting", ret |-> NoReturn, nf |-> nf2,
              timer |-> [state |-> "pending", d |-> Interval(base, vals)],
              interval |-> [set |-> TRUE, d |-> Interval(base, vals)], made |-> TRUE]

\* AfterPoll without the test of interval <= 0 at line 173
AfterPollNoIntervalGuard(p, err, vals, nf, base, tm) ==
    LET retry == err # NoError /\ nf < maxNotFoundRetry /\ shoudRetry(err)
        nf2   == IF retry THEN nf + 1 ELSE nf
    IN  IF err # NoError /\ ~retry
        THEN [pc |-> "idle", ret |-> [op |-> "Wait", err |-> WithMessagef(err, MsgPollFail)],
              nf |-> nf, timer |-> tm, interval |-> NoInterval, made |-> FALSE]
        ELSE IF Done(p)
        THEN [pc |-> "idle", ret |-> WaitResult(p), nf |-> nf2, timer |-> tm,
              interval |-> NoInterval, made |-> FALSE]
        ELSE [pc |-> "waiting", ret |-> NoReturn, nf |-> nf2,
              timer |-> [state |-> "pending", d |-> Interval(base, vals)],
              interval |-> [set |-> TRUE, d |-> Interval(base, vals)], made |-> TRUE]

\* the loop body after o.Poll returned err with snapshot p and header values vals:
\* where the loop goes, what it returns, the retry counter, the timer, the
\* interval if line 166 is reached and whether o.newTimer is called
AfterPoll(p, err, vals, nf, base, tm) ==
    LET retry == err # NoError /\ nf < maxNotFoundRetry /\ shoudRetry(err)
        nf2   == IF retry THEN nf + 1 ELSE nf
    IN  IF err # NoError /\ ~retry
        THEN [pc |-> "idle", ret |-> [op |-> "Wait", err |-> WithMessagef(err, MsgPollFail)],
              nf |-> nf, timer |-> tm, interval |-> NoInterval, made |-> FALSE]
        ELSE IF Done(p)
        THEN [pc |-> "idle", ret |-> WaitResult(p), nf |-> nf2, timer |-> tm,
              interval |-> NoInterval, made |-> FALSE]
        ELSE IF ~Positive(Interval(base, vals))
        THEN [pc |-> "head", ret |-> NoReturn, nf |-> nf2, timer |-> tm,
              interval |-> [set |-> TRUE, d |-> Interval(base, vals)], made |-> FALSE]
        ELSE [pc |-> "waiting", ret |-> NoReturn, nf |-> nf2,
              timer |-> [state |-> "pending", d |-> Interval(base, vals)],
              interval |-> [set |-> TRUE, d |-> Interval(base, vals)], made |-> TRUE]

-----------------------------------------------------------------------------
(* The state machine *)

Init ==
    /\ \E id \in SampleIds : proto \in Snapshots(id)
    /\ pc = "idle"
    /\ pollInterval = DefaultPollInterval
    /\ notFoundCount = 0
    /\ headers = <<>>
    /\ ctxErr = "nil"
    /\ timer = NoTimer
    /\ ret = NoReturn
    /\ nQueries = 0
    /\ lastQuery = NoQuery
    /\ lastResp = NoResponse
    /\ before = proto
    /\ nfSeen = 0
    /\ interval = NoInterval
    /\ newTimerCalled = FALSE

\* Operation.Poll called on its own, with the response of the Get it calls. No
\* waitInterval is running: its locals and its context have their initial values.
\* A behaviour makes one call on the handle: what a call does depends on o.proto
\* alone, and Init draws o.proto from every snapshot an earlier call can leave.
Poll ==
    /\ pc = "idle"
    /\ ret = NoReturn
    /\ \E resp \in IF Family(Id(proto)) = "none" THEN {NoResponse} ELSE Responses(Id(proto)) :
        /\ proto' = PollResult(proto, resp).proto
        /\ ret' = [op |-> "Poll", err |-> PollResult(proto, resp).err]
        /\ lastResp' = resp
    /\ lastQuery' = [family |-> Family(Id(proto)), id |-> Id(proto)]
    /\ nQueries' = IF Family(Id(proto)) = "none" THEN 0 ELSE 1
    /\ before' = proto
    /\ pollInterval' = DefaultPollInterval
    /\ notFoundCount' = 0
    /\ headers' = <<>>
    /\ ctxErr' = "nil"
    /\ timer' = NoTimer
    /\ nfSeen' = 0
    /\ interval' = NoInterval
    /\ newTimerCalled' = FALSE
    /\ UNCHANGED pc

\* waitInterval up to its loop, lines 145-151, entered with base interval base
EnterWait(base) ==
    /\ pc = "idle"
    /\ ret = NoReturn
    /\ pc' = "head"
    /\ pollInterval' = base
    /\ notFoundCount' = 0
    /\ headers' = <<>>
    /\ ctxErr' = "nil"
    /\ timer' = NoTimer
    /\ ret' = NoReturn
    /\ nQueries' = 0
    /\ nfSeen' = 0
    /\ lastQuery' = NoQuery
    /\ lastResp' = NoResponse
    /\ before' = proto
    /\ interval' = NoInterval
    /\ newTimerCalled' = FALSE
    /\ UNCHANGED proto

Wait == EnterWait(DefaultPollInterval)

WaitInterval == \E base \in BaseIntervals : EnterWait(base)

\* LoopExit looking at the context before it returns
LoopExitChecksContext ==
    /\ pc = "head"
    /\ Done(proto)
    /\ pc' = "idle"
    /\ ret' = IF ctxErr # "nil"
              THEN [op |-> "Wait", err |-> WithMessagef(ContextErr(ctxErr), MsgContextDone)]
              ELSE WaitResult(proto)
    /\ UNCHANGED <<proto, pollInterval, notFoundCount, headers, ctxErr, timer,
                   nQueries, lastQuery, lastResp, before, nfSeen, interval,
                   newTimerCalled>>

\* the loop condition fails: line 184
LoopExit ==
    /\ pc = "head"
    /\ Done(proto)
    /\ pc' = "idle"
    /\ ret' = WaitResult(proto)
    /\ UNCHANGED <<proto, pollInterval, notFoundCount, headers, ctxErr, timer,
                   nQueries, lastQuery, lastResp, before, nfSeen, interval,
                   newTimerCalled>>

\* IssueQuery without line 153
IssueQueryKeepsHeaders ==
    /\ pc = "head"
    /\ ~Done(proto)
    /\ Family(Id(proto)) # "none"
    /\ nQueries < MaxQueries
    /\ pc' = "query"
    /\ nQueries' = nQueries + 1
    /\ lastQuery' = [family |-> Family(Id(proto)), id |-> Id(proto)]
    /\ lastResp' = NoResponse
    /\ before' = proto
    /\ interval' = NoInterval
    /\ newTimerCalled' = FALSE
    /\ UNCHANGED <<proto, pollInterval, notFoundCount, headers, ctxErr, timer, ret,
                   nfSeen>>

\* lines 153-154 for an identifier of a family: the Get request goes out
IssueQuery ==
    /\ pc = "head"
    /\ ~Done(proto)
    /\ Family(Id(proto)) # "none"
    /\ nQueries < MaxQueries
    /\ pc' = "query"
    /\ headers' = <<>>
    /\ nQueries' = nQueries + 1
    /\ lastQuery' = [family |-> Family(Id(proto)), id |-> Id(proto)]
    /\ lastResp' = NoResponse
    /\ before' = proto
    /\ interval' = NoInterval
    /\ newTimerCalled' = FALSE
    /\ UNCHANGED <<proto, pollInterval, notFoundCount, ctxErr, timer, ret, nfSeen>>

\* the rest of an iteration, from Poll's return to the select or the loop's head
FinishIteration(resp, vals) ==
    LET r == PollResult(proto, resp)
        a == AfterPoll(r.proto, r.err, vals, notFoundCount, pollInterval, timer)
    IN  /\ proto' = r.proto
        /\ headers' = vals
        /\ lastResp' = resp
        /\ pc' = a.pc
        /\ ret' = a.ret
        /\ notFoundCount' = a.nf
        /\ timer' = a.timer
        /\ nfSeen' = IF resp.err.code = "NotFound" THEN nfSeen + 1 ELSE nfSeen
        /\ interval' = a.interval
        /\ newTimerCalled' = a.made

\* the Get of the loop's Poll returns. grpc.Header(&headers) stores the header
\* metadata of the response; a Get that fails may have received none, and then
\* headers keeps what line 153 gave it
QueryReturns ==
    /\ pc = "query"
    /\ \E resp \in Responses(Id(proto)) :
        \/ \E vals \in HeaderSamples : FinishIteration(resp, vals)
        \/ resp.err # NoError /\ FinishIteration(resp, headers)
    /\ UNCHANGED <<pollInterval, ctxErr, nQueries, lastQuery, before>>

\* lines 153-154 for an identifier of no family: Poll is entered and calls no Get
PollNoFamilyCall ==
    /\ pc = "head"
    /\ ~Done(proto)
    /\ Family(Id(proto)) = "none"
    /\ pc' = "poll"
    /\ headers' = <<>>
    /\ lastQuery' = [family |-> "none", id |-> Id(proto)]
    /\ lastResp' = NoResponse
    /\ before' = proto
    /\ interval' = NoInterval
    /\ newTimerCalled' = FALSE
    /\ UNCHANGED <<proto, pollInterval, notFoundCount, ctxErr, timer, ret, nQueries,
                   nfSeen>>

\* that Poll returns, and the rest of the iteration
PollNoFamilyReturn ==
    /\ pc = "poll"
    /\ FinishIteration(NoResponse, headers)
    /\ UNCHANGED <<pollInterval, ctxErr, nQueries, lastQuery, before>>

\* the select takes the timer's case
TimerFires ==
    /\ pc = "waiting"
    /\ pc' = "head"
    /\ timer' = [timer EXCEPT !.state = "fired"]
    /\ UNCHANGED <<proto, pollInterval, notFoundCount, headers, ctxErr, ret,
                   nQueries, lastQuery, lastResp, before, nfSeen, interval,
                   newTimerCalled>>

\* ContextDone that also gives up a Get in flight when the context is done
ContextDoneAbortsQuery ==
    /\ pc \in {"waiting", "query"}
    /\ ctxErr # "nil"
    /\ pc' = "idle"
    /\ timer' = IF pc = "waiting" THEN [timer EXCEPT !.state = "stopped"] ELSE timer
    /\ ret' = [op |-> "Wait", err |-> WithMessagef(ContextErr(ctxErr), MsgContextDone)]
    /\ UNCHANGED <<proto, pollInterval, notFoundCount, headers, ctxErr,
                   nQueries, lastQuery, lastResp, before, nfSeen, interval,
                   newTimerCalled>>

\* ContextDone without the call of stop()
ContextDoneNoStop ==
    /\ pc = "waiting"
    /\ ctxErr # "nil"
    /\ pc' = "idle"
    /\ ret' = [op |-> "Wait", err |-> WithMessagef(ContextErr(ctxErr), MsgContextDone)]
    /\ UNCHANGED <<proto, pollInterval, notFoundCount, headers, ctxErr, timer,
                   nQueries, lastQuery, lastResp, before, nfSeen, interval,
                   newTimerCalled>>

\* the select takes ctx.Done(): lines 179-181
ContextDone ==
    /\ pc = "waiting"
    /\ ctxErr # "nil"
    /\ pc' = "idle"
    /\ timer' = [timer EXCEPT !.state = "stopped"]
    /\ ret' = [op |-> "Wait", err |-> WithMessagef(ContextErr(ctxErr), MsgContextDone)]
    /\ UNCHANGED <<proto, pollInterval, notFoundCount, headers, ctxErr,
                   nQueries, lastQuery, lastResp, before, nfSeen, interval,
                   newTimerCalled>>

\* the caller's context becomes done while Wait runs; at the loop's head this is
\* also the call with a context that is done already
Cancel ==
    /\ pc \in {"head", "query", "poll", "waiting"}
    /\ ctxErr = "nil"
    /\ ctxErr' \in ContextErrors
    /\ UNCHANGED <<proto, pc, pollInterval, notFoundCount, headers, timer, ret,
                   nQueries, lastQuery, lastResp, before, nfSeen, interval,
                   newTimerCalled>>

Next ==
    \/ Poll
    \/ Wait
    \/ WaitInterval
    \/ LoopExit
    \/ IssueQuery
    \/ QueryReturns
    \/ PollNoFamilyCall
    \/ PollNoFamilyReturn
    \/ TimerFires
    \/ ContextDone
    \/ Cancel

Spec == Init /\ [][Next]_vars

\* the identifiers of the runs checked for liveness: one of no family, one of the
\* clickhouse family, one of the network family
LiveIds == { <<"c", "h">>, <<"c", "h", "o", "1">>, IdUuid36 }

LiveInit == Init /\ Id(proto) \in LiveIds

\* Spec where a call that runs goes on: the loop takes its next step, a Get or a
\* Poll that was called returns, a pending timer fires. A select entered with a
\* context that is done finds ctx.Done() ready while its timer, just made of an
\* interval above zero, is not, so a loop that comes to the select again and
\* again with a done context takes that case.
FairSpec ==
    /\ LiveInit
    /\ [][Next]_vars
    /\ WF_vars(LoopExit)
    /\ WF_vars(IssueQuery)
    /\ WF_vars(QueryReturns)
    /\ WF_vars(PollNoFamilyCall)
    /\ WF_vars(PollNoFamilyReturn)
    /\ WF_vars(TimerFires)
    /\ SF_vars(ContextDone)

-----------------------------------------------------------------------------
(* Properties *)

\* a waitInterval call is running or was the latest call to return
InWait == pc # "idle" \/ ret.op = "Wait"

\* the latest Get returned a snapshot
GotSnapshot == lastResp.state # NilState

\* the latest Get failed
GetFailed == lastResp.err # NoError

\* err is cause code under message msg and nothing else
Wraps(err, msg, code) == err.code = code /\ err.msgs # <<>> /\ Head(err.msgs) = msg

NoKnownPrefix(id) ==
    /\ ~HasPrefix(id, <<"c", "h", "o">>)
    /\ ~HasPrefix(id, <<"k", "f", "o">>)
    /\ ~HasPrefix(id, <<"d", "t", "j">>)
    /\ ~HasPrefix(id, <<"d", "t", "e">>)

C2_PollRoutesByIdentifier ==
    lastQuery # NoQuery =>
        LET id == Id(proto) IN
        /\ lastQuery.id = id
        /\ HasPrefix(id, <<"c", "h", "o">>) => lastQuery.family = "clickhouse"
        /\ (~HasPrefix(id, <<"c", "h", "o">>) /\ HasPrefix(id, <<"k", "f", "o">>))
              => lastQuery.family = "kafka"
        /\ (/\ ~HasPrefix(id, <<"c", "h", "o">>)
            /\ ~HasPrefix(id, <<"k", "f", "o">>)
            /\ HasPrefix(id, <<"d", "t", "j">>) \/ HasPrefix(id, <<"d", "t", "e">>))
              => lastQuery.family = "transfer"
        /\ (NoKnownPrefix(id) /\ UuidParses(id)) => lastQuery.family = "network"
        /\ (ret.op = "Poll" /\ (~NoKnownPrefix(id) \/ UuidParses(id))) => nQueries = 1

\* Poll on a UUID identifier has queried the network family, once
C2_Witness ==
    /\ ret.op = "Poll"
    /\ UuidParses(Id(proto))
    /\ lastQuery.family = "network"
    /\ nQueries = 1

\* C3 as stated: Poll on an identifier with none of the prefixes that does not
\* parse as a UUID returns a non-nil unknown-type error, has issued no query and
\* has left the snapshot as it was.
C3_UnknownTypeFails ==
    (ret.op = "Poll" /\ NoKnownPrefix(Id(proto)) /\ ~UuidParses(Id(proto))) =>
        /\ ret.err # NoError
        /\ Head(ret.err.msgs) = MsgUnknownType
        /\ nQueries = 0
        /\ proto = before

\* C4 as stated: for each of the four families, a Poll whose Get failed returns
\* a non-nil error that carries the Get's error, and has left the snapshot as it
\* was.
C4_QueryFailureIsReturned ==
    (ret.op = "Poll" /\ lastQuery.family \in Families /\ GetFailed) =>
        /\ ret.err # NoError
        /\ ret.err.grpc
        /\ ret.err.code = lastResp.err.code
        /\ proto = before

\* C5: once a Get has returned a snapshot, every accessor reads that snapshot,
\* the stored snapshot is that snapshot as a whole, and Poll called on its own
\* has returned no error.
C5_SuccessReplacesSnapshot ==
    GotSnapshot =>
        /\ proto = lastResp.state
        /\ Id(proto) = Id(lastResp.state)
        /\ Status(proto) = Status(lastResp.state)
        /\ Metadata(proto) = Metadata(lastResp.state)
        /\ Error(proto) = Error(lastResp.state)
        /\ Done(proto) = Done(lastResp.state)
        /\ Ok(proto) = Ok(lastResp.state)
        /\ Failed(proto) = Failed(lastResp.state)
        /\ ret.op = "Poll" => ret.err = NoError

\* Poll replaced a snapshot by one that differs from it in status and metadata
C5_Witness ==
    /\ ret.op = "Poll"
    /\ GotSnapshot
    /\ Status(proto) # Status(before)
    /\ Metadata(proto) # Metadata(before)

\* C6: in Wait, once a Get has returned a terminal snapshot with no recorded
\* error, Wait has returned no error: the loop is not at its select, no timer is
\* pending and no query is in flight.
C6_OkSnapshotEndsWait ==
    (InWait /\ GotSnapshot /\ Ok(lastResp.state)) =>
        /\ pc = "idle"
        /\ ret = [op |-> "Wait", err |-> NoError]
        /\ timer.state # "pending"

\* Wait returned no error on its third query, after two pending snapshots and two
\* timers that fired
C6_Witness ==
    /\ ret = [op |-> "Wait", err |-> NoError]
    /\ GotSnapshot
    /\ Ok(lastResp.state)
    /\ nQueries = 3
    /\ nfSeen = 0
    /\ timer.state = "fired"

C8_NotFoundIsCountedAndRetried ==
    /\ (InWait /\ GetFailed /\ lastResp.err.code = "NotFound" /\ nfSeen <= maxNotFoundRetry) =>
          /\ notFoundCount = nfSeen
          /\ ~(ret.op = "Wait" /\ ret.err # NoError /\ Head(ret.err.msgs) = MsgPollFail)
    /\ (ret.op = "Wait" /\ nfSeen = 2 /\ GotSnapshot /\ Done(lastResp.state)) =>
          /\ notFoundCount = 2
          /\ ret = WaitResult(lastResp.state)

\* C9 as stated: for every family, the fourth NotFound result makes Wait return
\* the query's error under the poll-fail message, and a Wait sees no more than
\* four NotFound results.
C9_FourthNotFoundEndsWait ==
    InWait =>
        /\ nfSeen <= maxNotFoundRetry + 1
        /\ (nfSeen = maxNotFoundRetry + 1 /\ GetFailed) =>
              /\ pc = "idle"
              /\ ret.op = "Wait"
              /\ Wraps(ret.err, MsgPollFail, "NotFound")

\* C10 as stated: for every family, a Get that fails with another code than
\* NotFound makes Wait return that error under the poll-fail message at once.
C10_OtherFailureEndsWait ==
    (InWait /\ GetFailed /\ lastResp.err.code # "NotFound") =>
        /\ pc = "idle"
        /\ ret.op = "Wait"
        /\ Wraps(ret.err, MsgPollFail, lastResp.err.code)
        /\ timer.state # "pending"

-----------------------------------------------------------------------------
(* The interval of a cycle and the wait *)

\* the latest Get returned a snapshot that is not terminal, and no error
GotPending == GotSnapshot /\ ~GetFailed /\ ~Done(lastResp.state)

\* v is the decimal notation of a positive integer
PositiveInteger(v) ==
    /\ v # <<>>
    /\ \A i \in 1..Len(v) : v[i] \in Digits
    /\ \E i \in 1..Len(v) : v[i] # "0"

\* the nanoseconds of the number of seconds that v is the decimal notation of
SecondsOf(v) ==
    [neg |-> FALSE, mag |-> Norm([i \in 1..Len(v) |-> DigitVal(v[i])] \o Tail(Second))]

\* Wait returned because its context was done
Cancelled == ret.op = "Wait" /\ ret.err # NoError /\ Head(ret.err.msgs) = MsgContextDone

\* C11 as stated: after a Get that returned a snapshot that is not terminal with
\* the header x-operation-poll-interval at a positive integer N, the cycle made a
\* timer of N seconds; the loop is at that timer's select, or back at its head
\* after the timer fired, or Wait returned because the context was done.
C11_HintDrivesWait ==
    (InWait /\ GotPending /\ headers # <<>> /\ PositiveInteger(headers[1])) =>
        /\ newTimerCalled
        /\ timer.d = SecondsOf(headers[1])
        /\ \/ pc = "waiting" /\ timer.state = "pending"
           \/ pc = "head" /\ timer.state = "fired"
           \/ pc = "idle" /\ timer.state = "stopped" /\ Cancelled

\* C12 as stated: the interval of a cycle is the header's number of seconds when
\* the header's first value is a positive integer, and the base interval in
\* every other case: no header, a value that is no number, zero, a negative.
C12_IntervalOnlyFromPositiveHint ==
    (InWait /\ interval.set) =>
        interval.d = IF headers # <<>> /\ PositiveInteger(headers[1])
                     THEN SecondsOf(headers[1])
                     ELSE Seconds(pollInterval)

\* v is an optional sign and then one or more decimal digits
IntegerNotation(v) ==
    /\ v # <<>>
    /\ LET ds == IF v[1] \in {"+", "-"} THEN Tail(v) ELSE v
       IN  ds # <<>> /\ \A i \in 1..Len(ds) : ds[i] \in Digits

\* the digits of v, for a v of IntegerNotation
DigitsOf(v) == IF v[1] \in {"+", "-"} THEN Tail(v) ELSE v

\* C12: the interval of a cycle is the base interval when the response had no
\* header or the header's first value is no integer; it is the header's number
\* of seconds when that value is an integer of up to nine digits, whatever its
\* sign, zero included; and for 9223372037 it is -9223372036709551616
\* nanoseconds, the low 64 bits of the product.
C12_IntervalOfCycle ==
    (InWait /\ interval.set) =>
        IF headers = <<>> \/ ~IntegerNotation(headers[1])
        THEN interval.d = Seconds(pollInterval)
        ELSE /\ Len(DigitsOf(headers[1])) <= 9 =>
                  /\ interval.d.mag = SecondsOf(DigitsOf(headers[1])).mag
                  /\ interval.d.neg = (headers[1][1] = "-" /\ interval.d.mag # <<>>)
             /\ headers[1] = HeaderOverflow =>
                  interval.d = [neg |-> TRUE,
                                mag |-> <<9, 2, 2, 3, 3, 7, 2, 0, 3, 6, 7, 0, 9, 5, 5, 1, 6, 1, 6>>]

\* a cycle whose response had the header at -1 while the base interval is one
\* second: the interval is below zero and the loop is back at its head
C12_Witness ==
    /\ InWait
    /\ GotPending
    /\ headers = << <<"-", "1">> >>
    /\ pollInterval = 1
    /\ interval = [set |-> TRUE, d |-> [neg |-> TRUE, mag |-> Second]]
    /\ pc = "head"

-----------------------------------------------------------------------------
(* Cancellation *)

\* C13: when Wait returned because its context was done, the error is the
\* context's error under the wait-context-done message and nothing else, which
\* is neither the poll-fail nor the failed message; the timer of the iteration
\* was pending and is stopped; and no Get went out after the latest response. A
\* timer is stopped in no other case.
C13_CancelWhileWaiting ==
    /\ Cancelled =>
          /\ pc = "idle"
          /\ ctxErr \in ContextErrors
          /\ ret.err = [grpc |-> FALSE, code |-> ctxErr, msgs |-> <<MsgContextDone>>]
          /\ MsgContextDone \notin {MsgPollFail, MsgFailed, MsgUnknownType}
          /\ newTimerCalled
          /\ timer = [state |-> "stopped", d |-> interval.d]
          /\ lastQuery.family # "none" => lastResp # NoResponse
    /\ timer.state = "stopped" => Cancelled

\* Wait returned the deadline's error from the select that followed its second Get
C13_Witness ==
    /\ Cancelled
    /\ ret.err.code = "DeadlineExceeded"
    /\ nQueries = 2
    /\ timer.state = "stopped"

-----------------------------------------------------------------------------
(* The iteration after a NotFound that is retried *)

\* the latest Get failed with NotFound and line 157 counted it
Absorbed ==
    /\ InWait
    /\ GetFailed
    /\ lastResp.err.code = "NotFound"
    /\ notFoundCount = nfSeen

-----------------------------------------------------------------------------
(* An interval of zero or less *)

\* C15: when the interval of the iteration is zero or less, from the base
\* interval or from the header, the iteration has called no newTimer, the loop
\* is not at the select and no timer is pending; whether the context is done or
\* not, Wait has not returned and the loop is at its head with an operation that
\* is not done, where its next step is the next Poll.
C15_NoWaitOnNonPositiveInterval ==
    (InWait /\ interval.set /\ ~Positive(interval.d)) =>
        /\ ~newTimerCalled
        /\ timer.state # "pending"
        /\ pc = "head"
        /\ ~Done(proto)
        /\ ret = NoReturn

\* the header was 0 while the base interval is one second and the context is
\* done: the loop is back at its head for its third Get
C15_Witness ==
    /\ interval = [set |-> TRUE, d |-> [neg |-> FALSE, mag |-> <<>>]]
    /\ headers = << <<"0">> >>
    /\ pollInterval = 1
    /\ ctxErr # "nil"
    /\ nQueries = 2
    /\ pc = "head"

-----------------------------------------------------------------------------
(* Where the context is read *)

\* a step that a Get in flight takes while the context is done: the Get returns
\* and its result is applied; Wait does not return the context's error, and on a
\* terminal snapshot it returns the operation's result
QueryOutlivesCancel ==
    (pc = "query" /\ ctxErr # "nil" /\ pc' # "query") =>
        /\ lastResp' \in Responses(Id(proto))
        /\ proto' = PollResult(proto, lastResp').proto
        /\ ~Cancelled'
        /\ (GotSnapshot' /\ Done(lastResp'.state)) => ret' = WaitResult(lastResp'.state)

\* a step in which Wait returns the context's error starts at the select
CancelledFromSelect == (Cancelled' /\ ~Cancelled) => pc = "waiting"

\* C16: the context is read at the select only. Whenever the latest Get returned
\* a terminal snapshot, Wait returned the operation's result, done context or
\* not; a Get in flight while the context is done still returns and its result is
\* applied; and Wait returns the context's error only in a step from the select.
C16_CancelOnlyAtSelect ==
    /\ []((InWait /\ GotSnapshot /\ Done(lastResp.state)) =>
            (pc = "idle" /\ ret = WaitResult(lastResp.state) /\ ~Cancelled))
    /\ [][QueryOutlivesCancel /\ CancelledFromSelect]_vars

\* the context was done before the only Get returned; the Get returned a failed
\* operation and Wait returned the operation's error
C16_Witness ==
    /\ ctxErr # "nil"
    /\ nQueries = 1
    /\ GotSnapshot
    /\ Failed(lastResp.state)
    /\ ret = WaitResult(lastResp.state)
    /\ ret.err.code = "Internal"

-----------------------------------------------------------------------------
(* Wait on an operation that is done already *)

\* C17: when Wait or WaitInterval is called on a handle whose snapshot is
\* terminal, it calls no Poll, so no Get goes out, and no newTimer; the snapshot
\* stays as it was at the call; and whether the context is done or not, what it
\* returns is the recorded error under the failed message, or nil for a
\* snapshot with no error.
C17_TerminalAtCall ==
    (InWait /\ Done(before)) =>
        /\ proto = before
        /\ nQueries = 0
        /\ lastQuery = NoQuery
        /\ lastResp = NoResponse
        /\ timer = NoTimer
        /\ ~newTimerCalled
        /\ pc \in {"head", "idle"}
        /\ pc = "idle" =>
              /\ ret = [op |-> "Wait", err |-> WithMessagef(Error(before), MsgFailed)]
              /\ Ok(before) => ret.err = NoError
              /\ Failed(before) => Wraps(ret.err, MsgFailed, before.error)

\* Wait was called on a failed operation, the context became done, and Wait
\* returned the operation's error
C17_Witness ==
    /\ ret.op = "Wait"
    /\ Failed(before)
    /\ ctxErr # "nil"
    /\ nQueries = 0
    /\ Wraps(ret.err, MsgFailed, "NotFound")

-----------------------------------------------------------------------------
(* The retry counter over a whole Wait *)

\* C18 as stated: in a Wait the counter is from 0 to 3 and is the number of
\* NotFound results the Wait has absorbed, whatever came between them: with up
\* to three NotFound results seen it equals their number, a fourth one makes
\* Wait return the query's error under the poll-fail message, and a Wait sees no
\* fifth.
C18_CounterBoundsRetries ==
    InWait =>
        /\ notFoundCount \in 0..maxNotFoundRetry
        /\ nfSeen <= maxNotFoundRetry => notFoundCount = nfSeen
        /\ nfSeen <= maxNotFoundRetry + 1
        /\ nfSeen = maxNotFoundRetry + 1 =>
              /\ notFoundCount = maxNotFoundRetry
              /\ pc = "idle"
              /\ ret.op = "Wait"
              /\ Wraps(ret.err, MsgPollFail, "NotFound")

-----------------------------------------------------------------------------
(* How long a hint lasts *)

\* C19: while a Poll of the loop runs, headers is empty; and in an iteration
\* whose response brought no header, or a header that is no integer, the
\* interval is the base interval and a timer the iteration makes is of the base
\* interval, whatever the hints of the iterations before.
C19_HintLastsOneCycle ==
    /\ pc \in {"query", "poll"} => headers = <<>>
    /\ (InWait /\ interval.set /\ (headers = <<>> \/ ~IntegerNotation(headers[1]))) =>
          /\ interval.d = Seconds(pollInterval)
          /\ newTimerCalled => timer.d = Seconds(pollInterval)

\* the base interval is zero; the first response had the hint 2 and its timer of
\* two seconds fired; the second response brought no header, and its iteration
\* has the base interval and made no timer
C19_Witness ==
    /\ nQueries = 2
    /\ GotPending
    /\ headers = <<>>
    /\ pollInterval = 0
    /\ interval = [set |-> TRUE, d |-> [neg |-> FALSE, mag |-> <<>>]]
    /\ ~newTimerCalled
    /\ timer = [state |-> "fired", d |-> [neg |-> FALSE, mag |-> <<2>> \o Tail(Second)]]
    /\ pc = "head"

-----------------------------------------------------------------------------
(* Return after cancellation *)

\* the call has issued all the Gets the model lets it issue
QueriesSpent == nQueries = MaxQueries

\* C20 as stated: once the context is done, the Wait that runs returns, short of
\* the runs the bound on Gets cuts.
C20_CancelledWaitReturns == (ctxErr # "nil") ~> (pc = "idle" \/ QueriesSpent)

=============================================================================
